---- MODULE Spec2Model ----
(***************************************************************************)
(* Model of scripts/generatedata.py: a linear script that generates four   *)
(* tables (users, listings, leads, transactions), writes each to a CSV     *)
(* file and appends each to a PostgreSQL table inside one try/except.      *)
(*                                                                         *)
(* Dates are day numbers.  Money is kept in integer fils (1/100 AED) once  *)
(* rounded; unrounded values carry finer units (see ListingPrice and       *)
(* FeaturedAmount).  The two pseudo-random generators of the script are    *)
(* state: `rng` is Python's global `random`, which the script seeds with   *)
(* 42, and `fake_rng` is the generator inside the Faker object, which the  *)
(* script never seeds, so that it starts every run in an arbitrary state.  *)
(* Both are modelled as deterministic streams (NextRand, NextFake); the    *)
(* specifications SpecListings, SpecLeads and SpecTransactions replace     *)
(* the stream values of the draws under study by arbitrary values of the   *)
(* draw's range.                                                           *)
(***************************************************************************)
EXTENDS Integers, Sequences, FiniteSets, TLC

(***************************************************************************)
(* Configuration (STEP 3), scaled down.                                    *)
(***************************************************************************)
NUM_USERS == 2

NUM_LISTINGS == 2

NUM_LEADS == 2

NUM_TRANSACTIONS == 2

\* length of the historical window in days: timedelta(days=730), scaled
WINDOW_DAYS == 1

\* number of states the unseeded Faker generator may start a run in
NumFakerSeeds == 2

\* number of times the script is run against the same directory and store
MaxRuns == 2

\* largest number of days between two consecutive runs
MaxDelay == 1

\* random.seed(42)
SEED == 42

(***************************************************************************)
(* Business logic setup (STEP 4).                                          *)
(***************************************************************************)
EMIRATES ==
    << "Dubai", "Abu Dhabi", "Sharjah", "Ajman", "Ras Al Khaimah",
       "Fujairah", "Umm Al Quwain" >>

EMIRATE_WEIGHTS == << 40, 25, 15, 5, 5, 5, 5 >>

CATEGORIES ==
    << "Apartments", "Villas", "Townhouses", "Penthouses", "Commercial", "Land" >>

CATEGORY_WEIGHTS == << 35, 25, 15, 10, 10, 5 >>

USER_TYPES == << "buyer", "seller", "agent" >>

USER_TYPE_WEIGHTS == << 50, 30, 20 >>

STATUSES == << "active", "sold", "expired" >>

STATUS_WEIGHTS == << 60, 25, 15 >>

TRANSACTION_TYPES == << "subscription", "featured_listing" >>

TRANSACTION_TYPE_WEIGHTS == << 60, 40 >>

\* random.choice([500, 1000, 2000, 5000]), in AED
SUBSCRIPTION_TIERS == << 500, 1000, 2000, 5000 >>

\* base price per category, in AED
base_price(category) ==
    CASE category = "Apartments" -> 800000
      [] category = "Villas"     -> 2500000
      [] category = "Townhouses" -> 1800000
      [] category = "Penthouses" -> 5000000
      [] category = "Commercial" -> 1500000
      [] category = "Land"       -> 1000000

\* the bug of writing each multiplier as the change it stands for (+30% as
\* 0.3, -50% as -0.5), in tenths
emirate_change(emirate) ==
    CASE emirate = "Dubai"          -> 3
      [] emirate = "Abu Dhabi"      -> 2
      [] emirate = "Sharjah"        -> -2
      [] emirate = "Ajman"          -> -4
      [] emirate = "Ras Al Khaimah" -> -3
      [] emirate = "Fujairah"       -> -4
      [] emirate = "Umm Al Quwain"  -> -5

\* emirate multiplier, in tenths (1.3 is 13)
emirate_multiplier(emirate) ==
    CASE emirate = "Dubai"          -> 13
      [] emirate = "Abu Dhabi"      -> 12
      [] emirate = "Sharjah"        -> 8
      [] emirate = "Ajman"          -> 6
      [] emirate = "Ras Al Khaimah" -> 7
      [] emirate = "Fujairah"       -> 6
      [] emirate = "Umm Al Quwain"  -> 5

\* the elements of a list
Range(s) == { s[i] : i \in 1..Len(s) }

\* the sum of the first n weights
RECURSIVE SumTo(_, _)
SumTo(w, n) == IF n = 0 THEN 0 ELSE w[n] + SumTo(w, n - 1)

(***************************************************************************)
(* The generators.  A generator state is a number below 101; a draw        *)
(* advances the state and its value r stands for random() = r / 101.       *)
(* The two step functions stand in for the Mersenne Twister: what matters  *)
(* is that the values drawn are a function of the state the run started    *)
(* in, and of nothing else.                                                *)
(***************************************************************************)
\* the next state of Python's global generator
NextRand(x) == (21 * x + 7) % 101

\* the next state of the generator inside the Faker object
NextFake(x) == (30 * x + 11) % 101

\* the state of `random` after k draws from state x
RECURSIVE RandAt(_, _)
RandAt(x, k) == IF k = 0 THEN x ELSE NextRand(RandAt(x, k - 1))

\* random.randint(a, b): a value of a..b
RandInt(a, b, r) == a + (r * (b - a + 1)) \div 101

RandIntRange(a, b) == a..b

\* random.choices(population, weights)[0]: the first element whose cumulative
\* weight exceeds random() * total
Choices(population, weights, r) ==
    LET total == SumTo(weights, Len(weights))
        point == (r * total) \div 101
        i     == CHOOSE j \in 1..Len(population) :
                     /\ SumTo(weights, j) > point
                     /\ \A h \in 1..(j - 1) : SumTo(weights, h) <= point
    IN  population[i]

\* the values random.choices can return: the elements of positive weight
ChoicesRange(population, weights) ==
    { population[i] : i \in { j \in 1..Len(population) : weights[j] > 0 } }

\* random.choice(seq)
Choice(s, r) == s[1 + (r * Len(s)) \div 101]

\* random.uniform(a, b) = a + (b - a) * random(), a and b in the same unit
Uniform(a, b, r) == a + ((b - a) * r) \div 101

\* fake.date_between(start_date, end_date): a day of start_date..end_date
DateBetween(start_date, end_date, r) ==
    start_date + (r * (end_date - start_date + 1)) \div 101

DateBetweenRange(start_date, end_date) == start_date..end_date

\* round half to even of (whole + rem / 10), as round(x, 2) does on a value
\* whose third decimal is rem
RoundHalfEven(whole, rem) ==
    IF rem > 5 \/ (rem = 5 /\ whole % 2 = 1) THEN whole + 1 ELSE whole

(***************************************************************************)
(* Program state.                                                          *)
(***************************************************************************)
VARIABLES
    pc,                 \* position in the script
    run,                \* which run of the script this is
    now,                \* datetime.now() of this run, as a day number
    rng,                \* state of Python's global random generator
    fake_rng,           \* state of the generator inside fake = Faker()
    users_data, listings_data, leads_data, transactions_data,
    users_df, listings_df, leads_df, transactions_df,
    files,              \* the four CSV files in the working directory
    store,              \* the four tables of the PostgreSQL database
    out,                \* what this run has printed
    calls,              \* the to_csv / create_engine / to_sql calls of this run
    exc                 \* the exception that ended the run, if any

vars ==
    << pc, run, now, rng, fake_rng,
       users_data, listings_data, leads_data, transactions_data,
       users_df, listings_df, leads_df, transactions_df,
       files, store, out, calls, exc >>

TABLES == << "users", "listings", "leads", "transactions" >>

\* a DataFrame variable that is not assigned yet
NoFrame == << [absent |-> "DataFrame"] >>

\* a CSV file that does not exist, and one a failed to_csv left incomplete
NoFile == [absent |-> "file"]

PartialFile == [absent |-> "rest of the file"]

START_DATE == now - WINDOW_DAYS

END_DATE == now

\* the day of the first run: its window starts on day 0
FirstNow == WINDOW_DAYS

\* the memory of a process that starts the script: random seeded, the lists
\* empty, no DataFrame yet, nothing printed or called
Memory ==
    /\ rng = SEED
    /\ users_data = << >> /\ listings_data = << >>
    /\ leads_data = << >> /\ transactions_data = << >>
    /\ users_df = NoFrame /\ listings_df = NoFrame
    /\ leads_df = NoFrame /\ transactions_df = NoFrame
    /\ out = << >> /\ calls = << >> /\ exc = "none"

\* the first run starts, with no CSV file in the directory and an empty store
Init ==
    /\ pc = "users"
    /\ run = 1
    /\ now = FirstNow
    /\ fake_rng \in 0..(NumFakerSeeds - 1)
    /\ Memory
    /\ files = [t \in Range(TABLES) |-> NoFile]
    /\ store = [t \in Range(TABLES) |-> << >>]

(***************************************************************************)
(* STEP 5: users.                                                          *)
(***************************************************************************)
\* the bug of looping over range(0, N + 1)
LoopIndexFromZero(data) == Len(data)

\* the loop variable of `for i in range(1, N + 1)` while `data` is being filled
LoopIndex(data) == Len(data) + 1

UserRow(i, signup_date, emirate, user_type) ==
    [user_id |-> i, signup_date |-> signup_date, emirate |-> emirate,
     user_type |-> user_type]

GenUser ==
    /\ pc = "users"
    /\ LoopIndex(users_data) <= NUM_USERS
    /\ LET signup_date == DateBetween(START_DATE, END_DATE, NextFake(fake_rng))
           emirate     == Choices(EMIRATES, EMIRATE_WEIGHTS, RandAt(rng, 1))
           user_type   == Choices(USER_TYPES, USER_TYPE_WEIGHTS, RandAt(rng, 2))
       IN  users_data' = Append(users_data,
               UserRow(LoopIndex(users_data), signup_date, emirate, user_type))
    /\ rng' = RandAt(rng, 2)
    /\ fake_rng' = NextFake(fake_rng)
    /\ UNCHANGED << pc, run, now, listings_data, leads_data, transactions_data,
                    users_df, listings_df, leads_df, transactions_df,
                    files, store, out, calls, exc >>

\* users_df = pd.DataFrame(users_data); print(Generated len(users_df) users)
MakeUsersDf ==
    /\ pc = "users"
    /\ LoopIndex(users_data) > NUM_USERS
    /\ users_df' = users_data
    /\ out' = Append(out, << "generated", "users", Len(users_data) >>)
    /\ pc' = "listings"
    /\ UNCHANGED << run, now, rng, fake_rng,
                    users_data, listings_data, leads_data, transactions_data,
                    listings_df, leads_df, transactions_df,
                    files, store, calls, exc >>

(***************************************************************************)
(* STEP 6: listings.                                                       *)
(***************************************************************************)
\* random.uniform(0.7, 1.5), in units of 1e-7
FACTOR_LOW == 7000000

FACTOR_HIGH == 15000000

\* the factors the unconstrained draws take: both ends and one value whose
\* price falls on half a fils
FactorSamples == { FACTOR_LOW, 10000001, FACTOR_HIGH }

\* base_price * emirate_multiplier * factor, in fils: base_price is a multiple
\* of 1e5 AED, the multiplier is in tenths and the factor in 1e-7, so the
\* product is bm * factor / 10 fils; whole fils and the tenths left over
ListingPrice(category, emirate, factor) ==
    LET bm     == (base_price(category) \div 100000) * emirate_multiplier(emirate)
        tenths == bm * (factor % 10)
    IN  [whole |-> bm * (factor \div 10) + tenths \div 10, rem |-> tenths % 10]

\* round(x, 2), in fils
Round2(x) == RoundHalfEven(x.whole, x.rem)

ListingRow(i, user_id, category, emirate, price, created_date, status) ==
    [listing_id |-> i, user_id |-> user_id, category |-> category,
     emirate |-> emirate, price |-> Round2(price),
     created_date |-> created_date, status |-> status]

\* one iteration of the listings loop in which the category, the emirate, the
\* factor and the date drawn are the given ones
ListingStep(category, emirate, factor, created_date) ==
    /\ pc = "listings"
    /\ LoopIndex(listings_data) <= NUM_LISTINGS
    /\ LET user_id == RandInt(1, NUM_USERS, RandAt(rng, 1))
           price   == ListingPrice(category, emirate, factor)
           status  == Choices(STATUSES, STATUS_WEIGHTS, RandAt(rng, 5))
       IN  listings_data' = Append(listings_data,
               ListingRow(LoopIndex(listings_data), user_id, category, emirate,
                          price, created_date, status))
    /\ rng' = RandAt(rng, 5)
    /\ fake_rng' = NextFake(fake_rng)
    /\ UNCHANGED << pc, run, now, users_data, leads_data, transactions_data,
                    users_df, listings_df, leads_df, transactions_df,
                    files, store, out, calls, exc >>

DrawnCategory == Choices(CATEGORIES, CATEGORY_WEIGHTS, RandAt(rng, 2))

DrawnEmirate == Choices(EMIRATES, EMIRATE_WEIGHTS, RandAt(rng, 3))

DrawnFactor == Uniform(FACTOR_LOW, FACTOR_HIGH, RandAt(rng, 4))

DrawnDate == DateBetween(START_DATE, END_DATE, NextFake(fake_rng))

GenListing == ListingStep(DrawnCategory, DrawnEmirate, DrawnFactor, DrawnDate)

\* the same iteration for any category, emirate and factor
GenListingAnyPrice ==
    \E category \in ChoicesRange(CATEGORIES, CATEGORY_WEIGHTS),
       emirate \in ChoicesRange(EMIRATES, EMIRATE_WEIGHTS),
       factor \in FactorSamples :
        ListingStep(category, emirate, factor, DrawnDate)

\* the same iteration for any created_date of the window
GenListingAnyDate ==
    \E created_date \in DateBetweenRange(START_DATE, END_DATE) :
        ListingStep(DrawnCategory, DrawnEmirate, DrawnFactor, created_date)

MakeListingsDf ==
    /\ pc = "listings"
    /\ LoopIndex(listings_data) > NUM_LISTINGS
    /\ listings_df' = listings_data
    /\ out' = Append(out, << "generated", "listings", Len(listings_data) >>)
    /\ pc' = "leads"
    /\ UNCHANGED << run, now, rng, fake_rng,
                    users_data, listings_data, leads_data, transactions_data,
                    users_df, leads_df, transactions_df,
                    files, store, calls, exc >>

(***************************************************************************)
(* STEP 7: leads.                                                          *)
(***************************************************************************)
\* listings_df[listings_df['listing_id'] == listing_id]['created_date'].values
CreatedDates(df, listing_id) ==
    LET hit == SelectSeq(df, LAMBDA row : row.listing_id = listing_id)
    IN  [k \in 1..Len(hit) |-> hit[k].created_date]

LeadRow(i, listing_id, user_id, lead_date) ==
    [lead_id |-> i, listing_id |-> listing_id, user_id |-> user_id,
     lead_date |-> lead_date]

\* .values[0] of an empty selection raises IndexError, which nothing catches
LeadLookupFails(listing_id) ==
    /\ pc = "leads"
    /\ LoopIndex(leads_data) <= NUM_LEADS
    /\ CreatedDates(listings_df, listing_id) = << >>
    /\ exc' = "IndexError"
    /\ pc' = "crashed"
    /\ rng' = RandAt(rng, 2)
    /\ UNCHANGED << run, now, fake_rng,
                    users_data, listings_data, leads_data, transactions_data,
                    users_df, listings_df, leads_df, transactions_df,
                    files, store, out, calls >>

\* one iteration of the leads loop with the given listing, user and date
LeadStep(listing_id, user_id, lead_date) ==
    /\ pc = "leads"
    /\ LoopIndex(leads_data) <= NUM_LEADS
    /\ CreatedDates(listings_df, listing_id) # << >>
    /\ leads_data' = Append(leads_data,
           LeadRow(LoopIndex(leads_data), listing_id, user_id, lead_date))
    /\ rng' = RandAt(rng, 2)
    /\ fake_rng' = NextFake(fake_rng)
    /\ UNCHANGED << pc, run, now, users_data, listings_data, transactions_data,
                    users_df, listings_df, leads_df, transactions_df,
                    files, store, out, calls, exc >>

\* the bug of starting the lead's date range at the start of the window
ListingCreatedIsWindowStart(listing_id) == START_DATE

\* pd.to_datetime(listing_created), which date_between turns back into a date
ListingCreated(listing_id) == CreatedDates(listings_df, listing_id)[1]

\* the bug of drawing the listing from one id too many
DrawnListingIdPastLast == RandInt(1, NUM_LISTINGS + 1, RandAt(rng, 1))

DrawnListingId == RandInt(1, NUM_LISTINGS, RandAt(rng, 1))

DrawnLeadUserId == RandInt(1, NUM_USERS, RandAt(rng, 2))

GenLead ==
    /\ pc = "leads"
    /\ IF CreatedDates(listings_df, DrawnListingId) = << >>
       THEN LeadLookupFails(DrawnListingId)
       ELSE LeadStep(DrawnListingId, DrawnLeadUserId,
                     DateBetween(ListingCreated(DrawnListingId), END_DATE,
                                 NextFake(fake_rng)))

\* the same iteration for any listing, any user and any date date_between
\* can return
GenLeadAny ==
    /\ pc = "leads"
    /\ \E listing_id \in RandIntRange(1, NUM_LISTINGS),
          user_id \in RandIntRange(1, NUM_USERS) :
           IF CreatedDates(listings_df, listing_id) = << >>
           THEN LeadLookupFails(listing_id)
           ELSE \E lead_date \in
                      DateBetweenRange(ListingCreated(listing_id), END_DATE) :
                    LeadStep(listing_id, user_id, lead_date)

MakeLeadsDf ==
    /\ pc = "leads"
    /\ LoopIndex(leads_data) > NUM_LEADS
    /\ leads_df' = leads_data
    /\ out' = Append(out, << "generated", "leads", Len(leads_data) >>)
    /\ pc' = "transactions"
    /\ UNCHANGED << run, now, rng, fake_rng,
                    users_data, listings_data, leads_data, transactions_data,
                    users_df, listings_df, transactions_df,
                    files, store, calls, exc >>

(***************************************************************************)
(* STEP 8: transactions.                                                   *)
(***************************************************************************)
\* random.uniform(100, 500), in units of 1e-3 AED
FEATURED_LOW == 100000

FEATURED_HIGH == 500000

\* the featured amounts the unconstrained draws take: both ends and two
\* values that fall on half a fils
FeaturedSamples == { FEATURED_LOW, 100015, 499995, FEATURED_HIGH }

\* a subscription tier (AED) and a featured amount (1e-3 AED) as whole fils
\* and the tenths left over
SubscriptionAmount(tier) == [whole |-> tier * 100, rem |-> 0]

FeaturedAmount(raw) == [whole |-> raw \div 10, rem |-> raw % 10]

TransactionRow(i, user_id, amount, transaction_date, transaction_type) ==
    [transaction_id |-> i, user_id |-> user_id, amount |-> Round2(amount),
     transaction_date |-> transaction_date,
     transaction_type |-> transaction_type]

\* the bug of testing the type the wrong way round
AmountForOtherType(transaction_type, tier, raw) ==
    IF transaction_type # "subscription"
    THEN SubscriptionAmount(tier)
    ELSE FeaturedAmount(raw)

\* the amount of a transaction of the given type, from the value drawn for it:
\* `if transaction_type == 'subscription': ... else: ...`
AmountFor(transaction_type, tier, raw) ==
    IF transaction_type = "subscription"
    THEN SubscriptionAmount(tier)
    ELSE FeaturedAmount(raw)

\* one iteration of the transactions loop with the given user and type, and
\* with the given tier and featured amount as what the amount draw returns
TransactionStep(user_id, transaction_type, tier, raw) ==
    /\ pc = "transactions"
    /\ LoopIndex(transactions_data) <= NUM_TRANSACTIONS
    /\ transactions_data' = Append(transactions_data,
           TransactionRow(LoopIndex(transactions_data), user_id,
                          AmountFor(transaction_type, tier, raw),
                          DrawnDate, transaction_type))
    /\ rng' = RandAt(rng, 3)
    /\ fake_rng' = NextFake(fake_rng)
    /\ UNCHANGED << pc, run, now, users_data, listings_data, leads_data,
                    users_df, listings_df, leads_df, transactions_df,
                    files, store, out, calls, exc >>

GenTransaction ==
    TransactionStep(RandInt(1, NUM_USERS, RandAt(rng, 1)),
                    Choices(TRANSACTION_TYPES, TRANSACTION_TYPE_WEIGHTS,
                            RandAt(rng, 2)),
                    Choice(SUBSCRIPTION_TIERS, RandAt(rng, 3)),
                    Uniform(FEATURED_LOW, FEATURED_HIGH, RandAt(rng, 3)))

\* the same iteration for any user, any type and any amount of the type
GenTransactionAny ==
    \E user_id \in RandIntRange(1, NUM_USERS),
       transaction_type \in
           ChoicesRange(TRANSACTION_TYPES, TRANSACTION_TYPE_WEIGHTS),
       tier \in Range(SUBSCRIPTION_TIERS),
       raw \in FeaturedSamples :
        TransactionStep(user_id, transaction_type, tier, raw)

MakeTransactionsDf ==
    /\ pc = "transactions"
    /\ LoopIndex(transactions_data) > NUM_TRANSACTIONS
    /\ transactions_df' = transactions_data
    /\ out' = Append(out,
           << "generated", "transactions", Len(transactions_data) >>)
    /\ pc' = "csv_users"
    /\ UNCHANGED << run, now, rng, fake_rng,
                    users_data, listings_data, leads_data, transactions_data,
                    users_df, listings_df, leads_df,
                    files, store, calls, exc >>

(***************************************************************************)
(* STEP 9: the CSV files.  The four to_csv calls stand outside any try.    *)
(***************************************************************************)
CsvPc(t) ==
    CASE t = "users"        -> "csv_users"
      [] t = "listings"     -> "csv_listings"
      [] t = "leads"        -> "csv_leads"
      [] t = "transactions" -> "csv_transactions"

SqlPc(t) ==
    CASE t = "users"        -> "sql_users"
      [] t = "listings"     -> "sql_listings"
      [] t = "leads"        -> "sql_leads"
      [] t = "transactions" -> "sql_transactions"

Df(t) ==
    CASE t = "users"        -> users_df
      [] t = "listings"     -> listings_df
      [] t = "leads"        -> leads_df
      [] t = "transactions" -> transactions_df

\* the header row of each file: the keys of the table's records
COLUMNS(t) ==
    CASE t = "users" ->
             << "user_id", "signup_date", "emirate", "user_type" >>
      [] t = "listings" ->
             << "listing_id", "user_id", "category", "emirate", "price",
                "created_date", "status" >>
      [] t = "leads" ->
             << "lead_id", "listing_id", "user_id", "lead_date" >>
      [] t = "transactions" ->
             << "transaction_id", "user_id", "amount", "transaction_date",
                "transaction_type" >>

\* what df.to_csv(path, index=False) writes: the header, then one line a row
CsvText(t, df) == [header |-> COLUMNS(t), lines |-> df]

\* where the script goes after the k-th to_csv returned
AfterCsv(k) == IF k < Len(TABLES) THEN CsvPc(TABLES[k + 1]) ELSE "connect"

\* the bug of a to_csv whose exception is swallowed
OnCsvErrorGoOn(k) == AfterCsv(k)

\* where the script goes when to_csv raises: nothing catches it
OnCsvError(k) == "crashed"

\* df.to_csv('<table>.csv', index=False): the file is replaced by the table; a
\* call that raises leaves the old file or an incomplete one
ToCsv ==
    \E k \in 1..Len(TABLES) :
        /\ pc = CsvPc(TABLES[k])
        /\ \/ /\ files' = [files EXCEPT
                     ![TABLES[k]] = CsvText(TABLES[k], Df(TABLES[k]))]
              /\ calls' = Append(calls, << "to_csv", TABLES[k], TRUE >>)
              /\ pc' = AfterCsv(k)
              /\ out' = IF k = Len(TABLES)
                        THEN Append(out, << "csv saved" >>) ELSE out
              /\ exc' = exc
           \/ /\ \E left \in { files[TABLES[k]], PartialFile } :
                     files' = [files EXCEPT ![TABLES[k]] = left]
              /\ calls' = Append(calls, << "to_csv", TABLES[k], FALSE >>)
              /\ pc' = OnCsvError(k)
              /\ exc' = "OSError"
              /\ out' = out
        /\ UNCHANGED << run, now, rng, fake_rng,
                        users_data, listings_data, leads_data,
                        transactions_data,
                        users_df, listings_df, leads_df, transactions_df,
                        store >>

(***************************************************************************)
(* STEP 10: the store.  create_engine and the four to_sql calls stand in   *)
(* one try whose `except Exception` prints the error and the advice.       *)
(***************************************************************************)
\* where the script goes after the k-th to_sql returned
AfterSql(k) == IF k < Len(TABLES) THEN SqlPc(TABLES[k + 1]) ELSE "success"

\* the bug of an except clause that does not match the exception raised
OnStoreErrorUncaught(k) == "crashed"

\* the bug of a try/except around each call, which goes on to the next table
OnStoreErrorNextTable(k) == IF k = 0 THEN SqlPc(TABLES[1]) ELSE AfterSql(k)

\* where the script goes when create_engine (k = 0) or the k-th to_sql raises
OnStoreError(k) == "except"

\* the bug of to_sql(..., if_exists='replace')
SqlReplace(existing, df) == df

\* to_sql(..., if_exists='append'): the table's rows after the insert
SqlAppend(existing, df) == existing \o df

CreateEngine ==
    /\ pc = "connect"
    /\ \/ /\ calls' = Append(calls, << "create_engine", "store", TRUE >>)
          /\ out' = Append(out, << "connecting" >>)
          /\ pc' = SqlPc(TABLES[1])
       \/ /\ calls' = Append(calls, << "create_engine", "store", FALSE >>)
          /\ out' = out
          /\ pc' = OnStoreError(0)
    /\ UNCHANGED << run, now, rng, fake_rng,
                    users_data, listings_data, leads_data, transactions_data,
                    users_df, listings_df, leads_df, transactions_df,
                    files, store, exc >>

\* a to_sql call that raises inserts nothing: pandas inserts inside one
\* transaction
ToSql ==
    \E k \in 1..Len(TABLES) :
        /\ pc = SqlPc(TABLES[k])
        /\ \/ /\ store' = [store EXCEPT
                     ![TABLES[k]] = SqlAppend(store[TABLES[k]], Df(TABLES[k]))]
              /\ calls' = Append(calls, << "to_sql", TABLES[k], TRUE >>)
              /\ out' = Append(out, << "loaded", TABLES[k] >>)
              /\ pc' = AfterSql(k)
           \/ /\ store' = store
              /\ calls' = Append(calls, << "to_sql", TABLES[k], FALSE >>)
              /\ out' = out
              /\ pc' = OnStoreError(k)
        /\ UNCHANGED << run, now, rng, fake_rng,
                        users_data, listings_data, leads_data,
                        transactions_data,
                        users_df, listings_df, leads_df, transactions_df,
                        files, exc >>

\* the success message, the data summary, the files created, the next steps
PrintSuccess ==
    /\ pc = "success"
    /\ out' = out \o << << "success" >>, << "summary" >>, << "files created" >> >>
    /\ pc' = "ended"
    /\ UNCHANGED << run, now, rng, fake_rng,
                    users_data, listings_data, leads_data, transactions_data,
                    users_df, listings_df, leads_df, transactions_df,
                    files, store, calls, exc >>

\* except Exception as e: the error, the possible issues, the good news
HandleException ==
    /\ pc = "except"
    /\ out' = out \o << << "error" >>, << "possible issues" >>,
                        << "csv files are still saved" >> >>
    /\ pc' = "ended"
    /\ UNCHANGED << run, now, rng, fake_rng,
                    users_data, listings_data, leads_data, transactions_data,
                    users_df, listings_df, leads_df, transactions_df,
                    files, store, calls, exc >>

(***************************************************************************)
(* The script is started again: a new process, the same working directory  *)
(* and the same database, at the same time or later.                       *)
(***************************************************************************)
Rerun ==
    /\ pc \in { "ended", "crashed" }
    /\ run < MaxRuns
    /\ run' = run + 1
    /\ pc' = "users"
    /\ now' \in now..(now + MaxDelay)
    /\ fake_rng' \in 0..(NumFakerSeeds - 1)
    /\ rng' = SEED
    /\ users_data' = << >> /\ listings_data' = << >>
    /\ leads_data' = << >> /\ transactions_data' = << >>
    /\ users_df' = NoFrame /\ listings_df' = NoFrame
    /\ leads_df' = NoFrame /\ transactions_df' = NoFrame
    /\ out' = << >> /\ calls' = << >> /\ exc' = "none"
    /\ UNCHANGED << files, store >>

Next ==
    \/ GenUser \/ MakeUsersDf
    \/ GenListing \/ MakeListingsDf
    \/ GenLead \/ MakeLeadsDf
    \/ GenTransaction \/ MakeTransactionsDf
    \/ ToCsv
    \/ CreateEngine \/ ToSql \/ PrintSuccess \/ HandleException
    \/ Rerun

\* the script as written, run up to MaxRuns times
Spec == Init /\ [][Next]_vars

NextListings == GenUser \/ MakeUsersDf \/ GenListingAnyPrice \/ MakeListingsDf

\* the script up to listings_df, with any category, emirate and factor drawn
SpecListings == Init /\ [][NextListings]_vars

NextLeads ==
    \/ GenUser \/ MakeUsersDf
    \/ GenListingAnyDate \/ MakeListingsDf
    \/ GenLeadAny \/ MakeLeadsDf

\* the script up to leads_df, with any created_date drawn for a listing and
\* any listing, user and date drawn for a lead
SpecLeads == Init /\ [][NextLeads]_vars

NextTransactions ==
    \/ GenUser \/ MakeUsersDf
    \/ GenListing \/ MakeListingsDf
    \/ GenLead \/ MakeLeadsDf
    \/ GenTransactionAny \/ MakeTransactionsDf

\* the script up to transactions_df, with any user, type and amount drawn for
\* a transaction
SpecTransactions == Init /\ [][NextTransactions]_vars

(***************************************************************************)
(* Properties.                                                             *)
(***************************************************************************)
IsPrefix(s, t) == Len(s) <= Len(t) /\ SubSeq(t, 1, Len(s)) = s

Data(t) ==
    CASE t = "users"        -> users_data
      [] t = "listings"     -> listings_data
      [] t = "leads"        -> leads_data
      [] t = "transactions" -> transactions_data

Count(t) ==
    CASE t = "users"        -> NUM_USERS
      [] t = "listings"     -> NUM_LISTINGS
      [] t = "leads"        -> NUM_LEADS
      [] t = "transactions" -> NUM_TRANSACTIONS

IdOf(t, row) ==
    CASE t = "users"        -> row.user_id
      [] t = "listings"     -> row.listing_id
      [] t = "leads"        -> row.lead_id
      [] t = "transactions" -> row.transaction_id

\* the listings of listings_df a lead refers to
ReferencedListings(lead) ==
    SelectSeq(listings_df, LAMBDA row : row.listing_id = lead.listing_id)

\* the positions of the calls of this run to the given function
CallsOf(f) == { j \in 1..Len(calls) : calls[j][1] = f }

FailedStoreCalls ==
    { j \in CallsOf("create_engine") \cup CallsOf("to_sql") : ~calls[j][3] }

Printed(line) == Cardinality({ j \in 1..Len(out) : out[j] = line })

\* C1: every lead's lead_date is on or after the created_date of the listing
\* it references and not later than END_DATE, whichever listing and whichever
\* created_date of the window were drawn.
C1_LeadDateWithinListingLife ==
    \A k \in 1..Len(leads_data) :
        LET lead == leads_data[k]
            of   == ReferencedListings(lead)
        IN  /\ Len(of) >= 1
            /\ \A h \in 1..Len(of) : of[h].created_date <= lead.lead_date
            /\ lead.lead_date <= END_DATE

\* the leads are complete and one of them, dated on the last day, refers to a
\* listing created on the last day of the window
C1_Witness ==
    /\ leads_df # NoFrame
    /\ \E k \in 1..Len(leads_df) :
           /\ ReferencedListings(leads_df[k])[1].created_date = END_DATE
           /\ leads_df[k].lead_date = END_DATE
    /\ \E k \in 1..Len(leads_df) :
           ReferencedListings(leads_df[k])[1].created_date < leads_df[k].lead_date

\* C2: a to_sql call is made only after all four to_csv calls of this run
\* returned and the four files hold the four tables; once a to_csv call has
\* raised, the run is over and has made no call to the store.
C2_ExportBeforeStore ==
    /\ \A j \in CallsOf("to_sql") \cup CallsOf("create_engine") :
           \A k \in 1..Len(TABLES) :
               /\ \E i \in 1..(j - 1) : calls[i] = << "to_csv", TABLES[k], TRUE >>
               /\ files[TABLES[k]] = CsvText(TABLES[k], Df(TABLES[k]))
    /\ (\E i \in CallsOf("to_csv") : ~calls[i][3]) =>
           /\ CallsOf("to_sql") \cup CallsOf("create_engine") = { }
           /\ pc = "crashed"

\* a run that has exported the four files and called to_sql
C2_Witness ==
    /\ CallsOf("to_sql") # { }
    /\ Cardinality(CallsOf("to_csv")) = Len(TABLES)

\* a step keeps the rows of every store table and, when it is a to_sql call,
\* the four files
C3_Step ==
    /\ \A k \in 1..Len(TABLES) : IsPrefix(store[TABLES[k]], store'[TABLES[k]])
    /\ pc \in { SqlPc(TABLES[k]) : k \in 1..Len(TABLES) } => files' = files

\* C3: no step removes or changes a row of the store, also in a later run
\* on a store that holds rows already, and a to_sql step, whether it returns
\* or raises, leaves the four files as they are.
C3_StoreOnlyGrows == [][C3_Step]_vars

\* a second run has ended with the rows of both runs in the store
C3_Witness ==
    /\ run = 2
    /\ pc = "ended"
    /\ Len(store["transactions"]) = 2 * NUM_TRANSACTIONS
    /\ Len(store["users"]) = 2 * NUM_USERS

\* C4: once create_engine or a to_sql call has raised, nothing more is called
\* (no retry, exactly one failure), the run is in the handler or has ended
\* normally, no exception has escaped, and the ended run has printed the
\* error once, with the reassurance about the files, and no success message.
C4_StoreFailureHandledOnce ==
    /\ \A k \in 1..Len(TABLES) :
           Cardinality({ j \in CallsOf("to_sql") : calls[j][2] = TABLES[k] }) <= 1
    /\ Cardinality(CallsOf("create_engine")) <= 1
    /\ FailedStoreCalls # { } =>
           /\ FailedStoreCalls = { Len(calls) }
           /\ pc \in { "except", "ended" }
           /\ exc = "none"
           /\ Printed(<< "success" >>) = 0
           /\ pc = "ended" =>
                  /\ Printed(<< "error" >>) = 1
                  /\ Printed(<< "csv files are still saved" >>) = 1
    /\ (pc = "ended" /\ FailedStoreCalls = { }) => Printed(<< "error" >>) = 0

\* a run that ended after the append of a table raised
C4_Witness ==
    /\ pc = "ended"
    /\ \E j \in FailedStoreCalls : calls[j][1] = "to_sql"

\* C5: a run started with tables from an earlier run with the same seed and
\* configuration on disk generates the same four tables.
C5_SameTablesEveryRun ==
    (/\ run > 1
     /\ pc = "csv_users"
     /\ \A k \in 1..Len(TABLES) : files[TABLES[k]] \notin { NoFile, PartialFile })
        => \A k \in 1..Len(TABLES) :
               CsvText(TABLES[k], Df(TABLES[k])) = files[TABLES[k]]

\* the ids generated so far are 1, 2, ... in order, and a DataFrame holds the
\* configured number of rows with the ids 1..count
C6_Tables ==
    \A k \in 1..Len(TABLES) :
        LET t == TABLES[k]
        IN  /\ Len(Data(t)) <= Count(t)
            /\ \A i \in 1..Len(Data(t)) : IdOf(t, Data(t)[i]) = i
            /\ Df(t) # NoFrame =>
                   /\ Df(t) = Data(t)
                   /\ Len(Df(t)) = Count(t)
                   /\ { IdOf(t, Df(t)[i]) : i \in 1..Len(Df(t)) } = 1..Count(t)

\* a step of a run keeps the rows generated so far
C6_RowsKept ==
    run' = run =>
        \A k \in 1..Len(TABLES) :
            /\ IsPrefix(Data(TABLES[k]), Data(TABLES[k])')
            /\ Df(TABLES[k]) # NoFrame => Df(TABLES[k])' = Df(TABLES[k])

\* C6: the ids of every table being generated are 1, 2, ... in order, every
\* DataFrame has exactly the configured number of rows and the ids 1..count,
\* and within a run no row of a list or of a DataFrame is changed or removed.
C6_IdsExactRowsKept == [](C6_Tables) /\ [][C6_RowsKept]_vars

\* a run that generated the four tables and ended
C6_Witness ==
    /\ pc = "ended"
    /\ \A k \in 1..Len(TABLES) : Len(Df(TABLES[k])) = Count(TABLES[k])
    /\ users_df[NUM_USERS].user_id = NUM_USERS

\* the least price the claim names: the smallest base price times the smallest
\* multiplier times 0.7, in fils
MinBasePrice ==
    CHOOSE b \in { base_price(c) : c \in Range(CATEGORIES) } :
        \A c \in Range(CATEGORIES) : b <= base_price(c)

MinMultiplier ==
    CHOOSE m \in { emirate_multiplier(e) : e \in Range(EMIRATES) } :
        \A e \in Range(EMIRATES) : m <= emirate_multiplier(e)

MinPrice == (MinBasePrice \div 100000) * MinMultiplier * (FACTOR_LOW \div 10)

\* C7: every listing has a price above zero, not below the least price, and
\* an owner among the users, whichever category, emirate and factor were drawn.
C7_ListingPriceAndOwner ==
    \A k \in 1..Len(listings_data) :
        /\ listings_data[k].price > 0
        /\ listings_data[k].price >= MinPrice
        /\ listings_data[k].user_id \in 1..NUM_USERS

\* the listings are complete and hold the cheapest listing there can be and
\* one whose price was rounded
C7_Witness ==
    /\ listings_df # NoFrame
    /\ \E k \in 1..Len(listings_df) :
           /\ listings_df[k].category = "Apartments"
           /\ listings_df[k].emirate = "Umm Al Quwain"
           /\ listings_df[k].price = MinPrice
    /\ \E k \in 1..Len(listings_df) : listings_df[k].price % 10 # 0

\* C8: every transaction has a user among the users and an amount of its
\* kind: a tier for a subscription, 100 to 500 AED for a featured listing.
C8_AmountMatchesKind ==
    \A k \in 1..Len(transactions_data) :
        LET tx == transactions_data[k]
        IN  /\ tx.user_id \in 1..NUM_USERS
            /\ tx.amount > 0
            /\ tx.transaction_type = "subscription" =>
                   tx.amount \in { 100 * tier : tier \in Range(SUBSCRIPTION_TIERS) }
            /\ tx.transaction_type = "featured_listing" =>
                   /\ FEATURED_LOW \div 10 <= tx.amount
                   /\ tx.amount <= FEATURED_HIGH \div 10

\* the transactions are complete and hold a subscription of the highest tier
\* and a featured listing whose amount was rounded
C8_Witness ==
    /\ transactions_df # NoFrame
    /\ \E k \in 1..Len(transactions_df) :
           /\ transactions_df[k].transaction_type = "subscription"
           /\ transactions_df[k].amount = 500000
    /\ \E k \in 1..Len(transactions_df) :
           /\ transactions_df[k].transaction_type = "featured_listing"
           /\ transactions_df[k].amount = 10002

\* C9: while leads are generated, and ever after, listings_df holds all the
\* listings; every lead refers to exactly one of them, its user is among the
\* users, and the lookup of created_date has not raised.
C9_LeadsAfterListings ==
    /\ exc # "IndexError"
    /\ (pc = "leads" \/ leads_data # << >>) =>
           /\ listings_df # NoFrame
           /\ Len(listings_df) = NUM_LISTINGS
           /\ \A k \in 1..Len(leads_data) :
                  /\ leads_data[k].listing_id \in 1..NUM_LISTINGS
                  /\ Len(ReferencedListings(leads_data[k])) = 1
                  /\ leads_data[k].user_id \in 1..NUM_USERS

\* the leads are complete and one of them refers to the last listing
C9_Witness ==
    /\ pc = "transactions"
    /\ Len(leads_df) = NUM_LEADS
    /\ \E k \in 1..Len(leads_df) : leads_df[k].listing_id = NUM_LISTINGS

\* the tables of the to_sql calls of this run, in call order
RECURSIVE SqlTables(_)
SqlTables(n) ==
    IF n = 0 THEN << >>
    ELSE IF calls[n][1] = "to_sql"
         THEN Append(SqlTables(n - 1), calls[n][2])
         ELSE SqlTables(n - 1)

Appended(t) == \E j \in CallsOf("to_sql") : calls[j] = << "to_sql", t, TRUE >>

\* the to_sql calls so far follow the order of TABLES, none follows one that
\* raised, every table appended is the tail of its store table, and the
\* success message was printed only after four appends
C10_State ==
    /\ IsPrefix(SqlTables(Len(calls)), TABLES)
    /\ \A j \in CallsOf("to_sql") : ~calls[j][3] => j = Len(calls)
    /\ \A k \in 1..Len(TABLES) :
           Appended(TABLES[k]) =>
               LET rows == store[TABLES[k]]
                   n    == Count(TABLES[k])
               IN  /\ Len(rows) >= n
                   /\ SubSeq(rows, Len(rows) - n + 1, Len(rows)) = Df(TABLES[k])
    /\ Printed(<< "success" >>) > 0 =>
           \A k \in 1..Len(TABLES) : Appended(TABLES[k])

\* a to_sql call that returns adds as many rows as the table has
C10_Step ==
    \A k \in 1..Len(TABLES) :
        (pc = SqlPc(TABLES[k]) /\ pc' = AfterSql(k)) =>
            Len(store'[TABLES[k]]) = Len(store[TABLES[k]]) + Count(TABLES[k])

\* C10: the to_sql calls of a run are users, listings, leads, transactions in
\* this order; once one has raised no later table is attempted while the
\* tables appended before it are still the last rows of their store tables;
\* the success message is printed only after four appends; and an append
\* adds the whole table to whatever the store table holds already, so that a
\* run after a partial failure appends the earlier tables a second time.
C10_OrderedAppendsNoRollback == [](C10_State) /\ [][C10_Step]_vars

\* a second run, after a first one in which the append of listings raised,
\* has appended the users again and is about to append the listings
C10_Witness ==
    /\ run = 2
    /\ pc = "sql_listings"
    /\ Len(store["users"]) = 2 * NUM_USERS
    /\ store["listings"] = << >>

====
